---- MODULE Spec2Model ----
(***************************************************************************)
(* Register (KRISTO.HEQIMI.cpp) and Authenticate (KRISO.HEQIMI2.cpp) over  *)
(* the shared store file users.json.                                       *)
(*                                                                         *)
(* A string is a sequence of one-character strings.  The store file is     *)
(* text; a process reads it through the JSON reader of operator>> and      *)
(* Register writes it through toStyledString, so every registration goes   *)
(* through an escape / unescape round trip.                                *)
(***************************************************************************)
EXTENDS Integers, Sequences, FiniteSets, TLC

VARIABLES
    file,    \* users.json: [exists |-> BOOLEAN, text |-> sequence of characters]
    file0,   \* users.json as it was before the first invocation
    calls,   \* <<u, p, r>> of every Register that ran to its end, in that order
    pc,      \* per process: "idle", "loaded", "opened", "done"
    op,      \* per process: "none", "register", "authenticate"
    args,    \* per process: the tokens it read from std::cin
    seen,    \* per process: the text it read from users.json
    db,      \* per process: its Json::Value db
    code,    \* per process: exit status of the finished run
    out      \* per process: what it wrote to std::cout

vars == <<file, file0, calls, pc, op, args, seen, db, code, out>>

Procs == {1, 2}

\* most Register invocations started in one behaviour
MaxRegs == 2

(***************************************************************************)
(* Characters and strings                                                  *)
(***************************************************************************)

\* The characters that occur, in ASCII order.
Alphabet ==
    << "\n", " ", "\"", ",", "1", ":", "A", "H", "S", "[", "\\", "]", "_",
       "a", "b", "d", "e", "h", "l", "m", "n", "o", "p", "r", "s", "t", "u", "w",
       "x", "{", "}" >>

Ord(c) == CHOOSE k \in 1..Len(Alphabet) : Alphabet[k] = c

RECURSIVE StrLess(_, _)
\* std::string operator< : the key order of a Json::Value object (std::map)
StrLess(s, t) ==
    IF t = <<>> THEN FALSE
    ELSE IF s = <<>> THEN TRUE
    ELSE IF Head(s) = Head(t) THEN StrLess(Tail(s), Tail(t))
    ELSE Ord(Head(s)) < Ord(Head(t))

K_users         == << "u", "s", "e", "r", "s" >>
K_username      == << "u", "s", "e", "r", "n", "a", "m", "e" >>
K_password_hash == << "p", "a", "s", "s", "w", "o", "r", "d", "_", "h", "a", "s", "h" >>
K_role          == << "r", "o", "l", "e" >>
HashPrefix      == << "H", "A", "S", "H", "_" >>

(***************************************************************************)
(* Json::Value: <<type, payload>>.  An object's payload is its members     *)
(* <<key, value>> in key order, an array's its elements.                   *)
(***************************************************************************)

Null     == << "null", <<>> >>
JStr(s)  == << "string", s >>
JInt(s)  == << "int", s >>
JArr(a)  == << "array", a >>
JObj(m)  == << "object", m >>

TypeOf(v)  == v[1]
Payload(v) == v[2]

Keys(v) == { Payload(v)[k][1] : k \in 1..Len(Payload(v)) }

\* Value::isMember
isMember(v, key) == TypeOf(v) = "object" /\ key \in Keys(v)

\* Value::operator[](key) const: the member, or null
Member(v, key) ==
    IF isMember(v, key)
    THEN Payload(v)[CHOOSE k \in 1..Len(Payload(v)) : Payload(v)[k][1] = key][2]
    ELSE Null

RECURSIVE PutSorted(_, _, _)
PutSorted(m, key, x) ==
    IF m = <<>> THEN << <<key, x>> >>
    ELSE IF Head(m)[1] = key THEN << <<key, x>> >> \o Tail(m)
    ELSE IF StrLess(key, Head(m)[1]) THEN << <<key, x>> >> \o m
    ELSE << Head(m) >> \o PutSorted(Tail(m), key, x)

\* v[key] = x on a null or object value
SetMember(v, key, x) ==
    JObj(PutSorted(IF TypeOf(v) = "object" THEN Payload(v) ELSE <<>>, key, x))

\* Value::append on a null or array value
append(v, x) ==
    JArr(Append(IF TypeOf(v) = "array" THEN Payload(v) ELSE <<>>, x))

\* Value::asString of a string, an integer or null
asString(v) == IF TypeOf(v) \in {"string", "int"} THEN Payload(v) ELSE <<>>

(***************************************************************************)
(* Writer: Value::toStyledString                                           *)
(***************************************************************************)

RECURSIVE Escape(_)
\* valueToQuotedString: the characters between the quotes
Escape(s) ==
    IF s = <<>> THEN <<>>
    ELSE (CASE Head(s) = "\"" -> << "\\", "\"" >>
            [] Head(s) = "\\" -> << "\\", "\\" >>
            [] Head(s) = "\n" -> << "\\", "n" >>
            [] OTHER -> << Head(s) >>) \o Escape(Tail(s))

Quoted(s) == << "\"" >> \o Escape(s) \o << "\"" >>

RECURSIVE WriteValue(_), WriteMembers(_), WriteElements(_)
WriteMembers(m) ==
    IF m = <<>> THEN <<>>
    ELSE Quoted(Head(m)[1]) \o << " ", ":", " " >> \o WriteValue(Head(m)[2])
         \o (IF Tail(m) = <<>> THEN <<>> ELSE << ",", "\n" >> \o WriteMembers(Tail(m)))

WriteElements(a) ==
    IF a = <<>> THEN <<>>
    ELSE WriteValue(Head(a))
         \o (IF Tail(a) = <<>> THEN <<>> ELSE << ",", "\n" >> \o WriteElements(Tail(a)))

\* one value, members and elements on lines of their own (indentation left out:
\* the reader skips it)
WriteValue(v) ==
    CASE TypeOf(v) = "string" -> Quoted(Payload(v))
      [] TypeOf(v) = "int"    -> Payload(v)
      [] TypeOf(v) = "array"  ->
            IF Payload(v) = <<>> THEN << "[", "]" >>
            ELSE << "[", "\n" >> \o WriteElements(Payload(v)) \o << "\n", "]" >>
      [] TypeOf(v) = "object" ->
            IF Payload(v) = <<>> THEN << "{", "}" >>
            ELSE << "{", "\n" >> \o WriteMembers(Payload(v)) \o << "\n", "}" >>
      [] OTHER -> << "n", "u", "l", "l" >>

toStyledString(v) == WriteValue(v) \o << "\n" >>

(***************************************************************************)
(* Reader: operator>>(std::istream&, Json::Value&)                         *)
(* Every read returns [ok, val, pos]: success, the value, the next index.  *)
(***************************************************************************)

Fail == [ok |-> FALSE, val |-> Null, pos |-> 0]

RECURSIVE skipSpaces(_, _)
skipSpaces(t, k) ==
    IF k <= Len(t) /\ t[k] \in {" ", "\n"} THEN skipSpaces(t, k + 1) ELSE k

RECURSIVE decodeString(_, _)
\* the characters of a string token from index k to its closing quote
decodeString(t, k) ==
    IF k > Len(t) THEN Fail
    ELSE IF t[k] = "\"" THEN [ok |-> TRUE, val |-> <<>>, pos |-> k + 1]
    ELSE IF t[k] = "\\" THEN
        IF k + 1 > Len(t) \/ t[k + 1] \notin {"\"", "\\", "n"} THEN Fail
        ELSE LET rest == decodeString(t, k + 2)
                 c == IF t[k + 1] = "n" THEN "\n" ELSE t[k + 1]
             IN  IF rest.ok THEN [rest EXCEPT !.val = << c >> \o @] ELSE Fail
    ELSE LET rest == decodeString(t, k + 1)
         IN  IF rest.ok THEN [rest EXCEPT !.val = << t[k] >> \o @] ELSE Fail

RECURSIVE readNumber(_, _)
readNumber(t, k) ==
    IF k <= Len(t) /\ t[k] = "1"
    THEN LET rest == readNumber(t, k + 1) IN [rest EXCEPT !.val = << "1" >> \o @]
    ELSE [ok |-> TRUE, val |-> <<>>, pos |-> k]

RECURSIVE readValue(_, _), readObject(_, _, _, _), readArray(_, _, _, _)

\* after '{' or after a ',': name is the previous member's name
readObject(t, k, acc, name) ==
    LET j == skipSpaces(t, k) IN
    IF j > Len(t) THEN Fail
    ELSE IF t[j] = "}" /\ name = <<>> THEN [ok |-> TRUE, val |-> acc, pos |-> j + 1]
    ELSE IF t[j] # "\"" THEN Fail
    ELSE LET key == decodeString(t, j + 1)
             c == skipSpaces(t, key.pos)
         IN  IF ~key.ok \/ c > Len(t) \/ t[c] # ":" THEN Fail
             ELSE LET x == readValue(t, c + 1)
                      e == skipSpaces(t, x.pos)
                      next == SetMember(acc, key.val, x.val)
                  IN  IF ~x.ok \/ e > Len(t) THEN Fail
                      ELSE IF t[e] = "}" THEN [ok |-> TRUE, val |-> next, pos |-> e + 1]
                      ELSE IF t[e] = "," THEN readObject(t, e + 1, next, key.val)
                      ELSE Fail

\* after '[' (first) or after a ','
readArray(t, k, acc, first) ==
    LET j == skipSpaces(t, k) IN
    IF first /\ j <= Len(t) /\ t[j] = "]" THEN [ok |-> TRUE, val |-> acc, pos |-> j + 1]
    ELSE LET x == readValue(t, k)
             e == skipSpaces(t, x.pos)
             next == append(acc, x.val)
         IN  IF ~x.ok \/ e > Len(t) THEN Fail
             ELSE IF t[e] = "]" THEN [ok |-> TRUE, val |-> next, pos |-> e + 1]
             ELSE IF t[e] = "," THEN readArray(t, e + 1, next, FALSE)
             ELSE Fail

readValue(t, k) ==
    LET j == skipSpaces(t, k) IN
    IF j > Len(t) THEN Fail
    ELSE CASE t[j] = "{"  -> readObject(t, j + 1, JObj(<<>>), <<>>)
           [] t[j] = "["  -> readArray(t, j + 1, JArr(<<>>), TRUE)
           [] t[j] = "\"" -> LET s == decodeString(t, j + 1)
                             IN  IF s.ok THEN [s EXCEPT !.val = JStr(@)] ELSE Fail
           [] t[j] = "1"  -> LET n == readNumber(t, j)
                             IN  [n EXCEPT !.val = JInt(@)]
           [] OTHER -> Fail

\* the whole document; text after the root value is ignored
parse(t) == readValue(t, 1)

(***************************************************************************)
(* The two programs                                                        *)
(***************************************************************************)

\* exit status of a process ended by an uncaught exception (SIGABRT)
Aborted == 134

NoFile == [exists |-> FALSE, text |-> <<>>]
OnDisk(t) == [exists |-> TRUE, text |-> t]

\* std::ifstream("users.json") >> db : a file that cannot be opened reads as
\* an empty stream; a document the reader rejects makes operator>> throw.
Load(f) == parse(f.text)

\* db.isMember("users") asserts that db is null or an object
Thrown(r) == ~r.ok \/ TypeOf(r.val) \notin {"object", "null"}

\* for (const auto& user : db["users"])
Elements(v) == IF TypeOf(v) = "array" THEN Payload(v) ELSE <<>>
Users(d) == Elements(Member(d, K_users))

\* a hash_pass whose prefix lacks the underscore
HashOtherPrefix(p) == << "H", "A", "S", "H" >> \o p

\* KRISO.HEQIMI2.cpp: hash_pass
hash_pass(p) == HashPrefix \o p

\* a Register that stores the password as it was typed
StoredPlain(p) == p

\* KRISTO.HEQIMI.cpp: "HASH_" + p
StoredHash(p) == HashPrefix \o p

\* if (!db.isMember("users")) db["users"] = Json::arrayValue;
Normalize(d) == IF ~isMember(d, K_users) THEN SetMember(d, K_users, JArr(<<>>)) ELSE d

NewUser(u, p, r) ==
    SetMember(SetMember(SetMember(Null, K_username, JStr(u)),
                        K_password_hash, JStr(StoredHash(p))),
              K_role, JStr(r))

\* a Register that puts the new record first
PrependUser(d, user) ==
    SetMember(d, K_users, JArr(<< user >> \o Elements(Member(d, K_users))))

\* db["users"].append(user)
AppendUser(d, user) == SetMember(d, K_users, append(Member(d, K_users), user))

MsgLoggedIn  == << "L", "o", "g", "g", "e", "d", " ", "i", "n", " ", "a", "s", " " >>
MsgIncorrect == << "I", "n", "c", "o", "r", "r", "e", "c", "t", " ",
                   "p", "a", "s", "s", "w", "o", "r", "d" >>
MsgNotFound  == << "U", "s", "e", "r", " ", "n", "o", "t", " ", "f", "o", "u", "n", "d" >>

LoggedIn(u, role) == MsgLoggedIn \o u \o << " ", "(" >> \o role \o << ")" >>

RECURSIVE ScanPastMismatch(_, _, _, _)
\* a loop that goes on to the next record when the password is wrong
ScanPastMismatch(users, k, u, p) ==
    IF k > Len(users) THEN [out |-> MsgIncorrect, code |-> 1]
    ELSE IF /\ asString(Member(users[k], K_username)) = u
            /\ asString(Member(users[k], K_password_hash)) = HashPrefix \o p
    THEN [out |-> LoggedIn(u, asString(Member(users[k], K_role))), code |-> 0]
    ELSE ScanPastMismatch(users, k + 1, u, p)

RECURSIVE ScanOneCondition(_, _, _, _)
\* a loop that tests name and password together and has no else branch
ScanOneCondition(users, k, u, p) ==
    IF k > Len(users) THEN [out |-> MsgNotFound, code |-> 1]
    ELSE IF /\ asString(Member(users[k], K_username)) = u
            /\ asString(Member(users[k], K_password_hash)) = HashPrefix \o p
    THEN [out |-> LoggedIn(u, asString(Member(users[k], K_role))), code |-> 0]
    ELSE ScanOneCondition(users, k + 1, u, p)

RECURSIVE ScanShort(_, _, _, _)
\* a loop that stops one record early
ScanShort(users, k, u, p) ==
    IF k >= Len(users) THEN [out |-> MsgNotFound, code |-> 1]
    ELSE IF asString(Member(users[k], K_username)) = u
    THEN IF asString(Member(users[k], K_password_hash)) = HashPrefix \o p
         THEN [out |-> LoggedIn(u, asString(Member(users[k], K_role))), code |-> 0]
         ELSE [out |-> MsgIncorrect, code |-> 1]
    ELSE ScanShort(users, k + 1, u, p)

RECURSIVE Scan(_, _, _, _)
\* the for loop of Authenticate from element k on
Scan(users, k, u, p) ==
    IF k > Len(users) THEN [out |-> MsgNotFound, code |-> 1]
    ELSE IF asString(Member(users[k], K_username)) = u
    THEN IF asString(Member(users[k], K_password_hash)) = hash_pass(p)
         THEN [out |-> LoggedIn(u, asString(Member(users[k], K_role))), code |-> 0]
         ELSE [out |-> MsgIncorrect, code |-> 1]
    ELSE Scan(users, k + 1, u, p)

\* main of KRISO.HEQIMI2.cpp on the file f with the tokens u, p
AuthResult(f, u, p) ==
    LET r == Load(f) IN
    IF Thrown(r) THEN [out |-> <<>>, code |-> Aborted, db |-> Null]
    ELSE IF ~isMember(r.val, K_users) THEN [out |-> <<>>, code |-> 1, db |-> r.val]
    ELSE [out |-> Scan(Users(r.val), 1, u, p).out,
          code |-> Scan(Users(r.val), 1, u, p).code,
          db |-> r.val]

(***************************************************************************)
(* Inputs                                                                  *)
(***************************************************************************)

UserNames == { << "a" >>, << "b" >> }
Passwords == { << "x" >>, << "\"", "\\" >> }

\* the lines given to Register: a second and a third record for "a" (another
\* password, the same password with another role) and a record for "b"
RegInputs ==
    { << << "a" >>, << "x" >>, << "r" >> >>,
      << << "a" >>, << "\"", "\\" >>, << "s" >> >>,
      << << "a" >>, << "x" >>, << "s" >> >>,
      << << "b" >>, << "\"", "\\" >>, << "r" >> >> }

\* the lines given to Authenticate
AuthInputs == UserNames \X Passwords

KeylessText    == << "{", "\"", "o", "t", "h", "e", "r", "\"", ":", "1", "}" >>
EmptyUsersText == << "{", "\"", "u", "s", "e", "r", "s", "\"", ":", "[", "]", "}" >>
OneUserText    ==
    toStyledString(AppendUser(Normalize(JObj(<<>>)), NewUser(<< "a" >>, << "x" >>, << "r" >>)))

InitFiles ==
    { NoFile, OnDisk(<<>>), OnDisk(KeylessText), OnDisk(EmptyUsersText), OnDisk(OneUserText) }

(***************************************************************************)
(* Processes                                                               *)
(***************************************************************************)

Init ==
    /\ file \in InitFiles
    /\ file0 = file
    /\ calls = <<>>
    /\ pc = [i \in Procs |-> "idle"]
    /\ op = [i \in Procs |-> "none"]
    /\ args = [i \in Procs |-> <<>>]
    /\ seen = [i \in Procs |-> <<>>]
    /\ db = [i \in Procs |-> Null]
    /\ code = [i \in Procs |-> 0]
    /\ out = [i \in Procs |-> <<>>]

InFlight == { i \in Procs : pc[i] \in {"loaded", "opened"} }

\* Register, lines 6-18: load, normalise, read the tokens, append
RegLoad(i, u, p, r) ==
    /\ pc[i] \in {"idle", "done"}
    /\ Len(calls) + Cardinality(InFlight) < MaxRegs
    /\ op' = [op EXCEPT ![i] = "register"]
    /\ args' = [args EXCEPT ![i] = <<u, p, r>>]
    /\ out' = [out EXCEPT ![i] = <<>>]
    /\ seen' = [seen EXCEPT ![i] = file.text]
    /\ LET l == Load(file) IN
       IF Thrown(l)
       THEN /\ pc' = [pc EXCEPT ![i] = "done"]
            /\ code' = [code EXCEPT ![i] = Aborted]
            /\ db' = [db EXCEPT ![i] = Null]
       ELSE /\ pc' = [pc EXCEPT ![i] = "loaded"]
            /\ code' = [code EXCEPT ![i] = 0]
            /\ db' = [db EXCEPT ![i] = AppendUser(Normalize(l.val), NewUser(u, p, r))]
    /\ UNCHANGED <<file, file0, calls>>

\* Register, line 20: std::ofstream("users.json") creates or truncates the file
RegOpen(i) ==
    /\ pc[i] = "loaded"
    /\ file' = OnDisk(<<>>)
    /\ pc' = [pc EXCEPT ![i] = "opened"]
    /\ UNCHANGED <<file0, calls, op, args, seen, db, code, out>>

\* a Register whose stream writes at the end of what the file holds by then
RegWriteAtEnd(i) ==
    /\ pc[i] = "opened"
    /\ file' = OnDisk(file.text \o toStyledString(db[i]))
    /\ pc' = [pc EXCEPT ![i] = "done"]
    /\ code' = [code EXCEPT ![i] = 0]
    /\ calls' = Append(calls, args[i])
    /\ UNCHANGED <<file0, op, args, seen, db, out>>

\* Register, line 20: << db.toStyledString(), the stream is flushed and closed,
\* main returns
RegWrite(i) ==
    /\ pc[i] = "opened"
    /\ file' = OnDisk(toStyledString(db[i]))
    /\ pc' = [pc EXCEPT ![i] = "done"]
    /\ code' = [code EXCEPT ![i] = 0]
    /\ calls' = Append(calls, args[i])
    /\ UNCHANGED <<file0, op, args, seen, db, out>>

\* an Authenticate that creates the missing "users" key and saves the store
AuthenticateSaving(i, u, p) ==
    /\ pc[i] \in {"idle", "done"}
    /\ LET a == AuthResult(file, u, p) IN
       /\ out' = [out EXCEPT ![i] = a.out]
       /\ code' = [code EXCEPT ![i] = a.code]
       /\ db' = [db EXCEPT ![i] = a.db]
       /\ file' = IF a.code # Aborted /\ ~isMember(a.db, K_users)
                  THEN OnDisk(toStyledString(Normalize(a.db)))
                  ELSE file
    /\ seen' = [seen EXCEPT ![i] = file.text]
    /\ op' = [op EXCEPT ![i] = "authenticate"]
    /\ args' = [args EXCEPT ![i] = <<u, p>>]
    /\ pc' = [pc EXCEPT ![i] = "done"]
    /\ UNCHANGED <<file0, calls>>

\* Authenticate, the whole run: it touches the file once, to read it
Authenticate(i, u, p) ==
    /\ pc[i] \in {"idle", "done"}
    /\ LET a == AuthResult(file, u, p) IN
       /\ out' = [out EXCEPT ![i] = a.out]
       /\ code' = [code EXCEPT ![i] = a.code]
       /\ db' = [db EXCEPT ![i] = a.db]
    /\ seen' = [seen EXCEPT ![i] = file.text]
    /\ op' = [op EXCEPT ![i] = "authenticate"]
    /\ args' = [args EXCEPT ![i] = <<u, p>>]
    /\ pc' = [pc EXCEPT ![i] = "done"]
    /\ UNCHANGED <<file, file0, calls>>

\* invocations one after another: every run ends before the next one starts
Next ==
    \/ \E line \in RegInputs : RegLoad(1, line[1], line[2], line[3])
    \/ RegOpen(1)
    \/ RegWrite(1)
    \/ \E line \in AuthInputs : Authenticate(1, line[1], line[2])

Spec == Init /\ [][Next]_vars

\* Register processes running at the same time on the same file
RaceNext ==
    \E i \in Procs :
        \/ \E line \in RegInputs : RegLoad(i, line[1], line[2], line[3])
        \/ RegOpen(i)
        \/ RegWrite(i)

RaceSpec == Init /\ [][RaceNext]_vars

(***************************************************************************)
(* The specification's vocabulary, written out independently of the code   *)
(***************************************************************************)

\* Hash(p) = "HASH_" + p
SpecHash(p) == << "H", "A", "S", "H", "_" >> \o p

\* the record {username: u, password_hash: Hash(p), role: r}
Rec(u, p, r) ==
    JObj(<< << K_password_hash, JStr(SpecHash(p)) >>,
            << K_role, JStr(r) >>,
            << K_username, JStr(u) >> >>)

RecOf(line) == Rec(line[1], line[2], line[3])

NameOf(rec) == asString(Member(rec, K_username))
HashOf(rec) == asString(Member(rec, K_password_hash))
RoleOf(rec) == asString(Member(rec, K_role))

\* the text is a JSON object
IsStore(t) == parse(t).ok /\ TypeOf(parse(t).val) = "object"
\* ... with a "users" key / without one
HasUsers(t) == IsStore(t) /\ isMember(parse(t).val, K_users)
Keyless(t) == IsStore(t) /\ ~isMember(parse(t).val, K_users)
\* its users sequence
UsersOf(t) == Users(parse(t).val)

\* the positions of the records named u, and the first of them
Holders(S, u) == { k \in 1..Len(S) : NameOf(S[k]) = u }
FirstHolder(S, u) == CHOOSE k \in Holders(S, u) : \A j \in Holders(S, u) : k <= j

SaysLoggedIn(u, r) ==
    << "L", "o", "g", "g", "e", "d", " ", "i", "n", " ", "a", "s", " " >>
    \o u \o << " ", "(" >> \o r \o << ")" >>
SaysIncorrect ==
    << "I", "n", "c", "o", "r", "r", "e", "c", "t", " ",
       "p", "a", "s", "s", "w", "o", "r", "d" >>
SaysNotFound ==
    << "U", "s", "e", "r", " ", "n", "o", "t", " ", "f", "o", "u", "n", "d" >>

\* a step of Spec in which process 1 starts an invocation
Starts == pc[1] \in {"idle", "done"}
\* a step of Spec that is a run of Authenticate
AuthStep == Starts /\ op'[1] = "authenticate"
\* process 1 has just finished a Register / an Authenticate
RegDone == pc[1] = "done" /\ op[1] = "register" /\ code[1] = 0
AuthDone == pc[1] = "done" /\ op[1] = "authenticate"

(***************************************************************************)
(* C1                                                                      *)
(***************************************************************************)

\* C1: when Register(u, p, r) has run on a store with no record named u and
\* Authenticate(u, p) runs next, it prints "Logged in as u (r)" and exits 0.
C1_RoundTrip ==
    [][ ( /\ RegDone
          /\ IsStore(seen[1])
          /\ Holders(UsersOf(seen[1]), args[1][1]) = {}
          /\ op'[1] = "authenticate"
          /\ args'[1] = << args[1][1], args[1][2] >> )
        => ( /\ out'[1] = SaysLoggedIn(args[1][1], args[1][3])
             /\ code'[1] = 0 ) ]_vars

\* Authenticate has succeeded with the line of the one Register before it, whose
\* password holds a quote and a backslash
C1_Witness ==
    /\ AuthDone
    /\ Len(calls) = 1
    /\ IsStore(file0.text)
    /\ Holders(UsersOf(file0.text), args[1][1]) = {}
    /\ args[1] = << calls[1][1], calls[1][2] >>
    /\ args[1][2] = << "\"", "\\" >>
    /\ code[1] = 0
    /\ out[1] = SaysLoggedIn(calls[1][1], calls[1][3])

(***************************************************************************)
(* C2                                                                      *)
(***************************************************************************)

\* C2: when the store holds two or more records named u, Authenticate(u, p)
\* succeeds exactly when p is the password of the first of them, reports that
\* record's role, and never succeeds with the different password of a later one.
C2_FirstMatch ==
    [][ ( /\ AuthStep
          /\ HasUsers(file.text)
          /\ Cardinality(Holders(UsersOf(file.text), args'[1][1])) >= 2 )
        => LET S == UsersOf(file.text)
               u == args'[1][1]
               p == args'[1][2]
               f == FirstHolder(S, u)
           IN  /\ code'[1] = 0 <=> HashOf(S[f]) = SpecHash(p)
               /\ code'[1] = 0 => out'[1] = SaysLoggedIn(u, RoleOf(S[f]))
               /\ \A j \in Holders(S, u) :
                      (HashOf(S[j]) # HashOf(S[f]) /\ HashOf(S[j]) = SpecHash(p))
                      => code'[1] # 0 ]_vars

\* Authenticate was given the password of a second record named u, which differs
\* from the first one's, and answered "Incorrect password"
C2_Witness ==
    /\ AuthDone
    /\ HasUsers(file.text)
    /\ LET S == UsersOf(file.text)
           H == Holders(S, args[1][1])
       IN  /\ Cardinality(H) >= 2
           /\ \E j \in H : /\ j # FirstHolder(S, args[1][1])
                           /\ HashOf(S[j]) = SpecHash(args[1][2])
                           /\ HashOf(S[j]) # HashOf(S[FirstHolder(S, args[1][1])])
    /\ out[1] = SaysIncorrect
    /\ code[1] = 1

(***************************************************************************)
(* C3                                                                      *)
(***************************************************************************)

\* C3: when the store holds a record named u, Authenticate(u, p) never prints
\* "User not found", and when the first such record's password_hash differs from
\* Hash(p) it prints "Incorrect password" and exits 1.
C3_WrongPassword ==
    [][ ( /\ AuthStep
          /\ HasUsers(file.text)
          /\ Holders(UsersOf(file.text), args'[1][1]) # {} )
        => LET S == UsersOf(file.text)
               f == FirstHolder(S, args'[1][1])
           IN  /\ out'[1] # SaysNotFound
               /\ HashOf(S[f]) # SpecHash(args'[1][2])
                  => (out'[1] = SaysIncorrect /\ code'[1] = 1) ]_vars

\* Authenticate has answered "Incorrect password" for the one record named u
C3_Witness ==
    /\ AuthDone
    /\ HasUsers(file.text)
    /\ Cardinality(Holders(UsersOf(file.text), args[1][1])) = 1
    /\ HashOf(UsersOf(file.text)[FirstHolder(UsersOf(file.text), args[1][1])])
          # SpecHash(args[1][2])
    /\ out[1] = SaysIncorrect
    /\ code[1] = 1

(***************************************************************************)
(* C4                                                                      *)
(***************************************************************************)

\* C4: Authenticate(u, p) prints "User not found" only after it loaded a store,
\* and then with exit code 1; on a loaded store it does so exactly when no record
\* is named u, so always on a store whose users sequence is empty.
C4_UnknownUser ==
    [][ AuthStep
        => /\ out'[1] = SaysNotFound => (HasUsers(file.text) /\ code'[1] = 1)
           /\ HasUsers(file.text)
              => ( Holders(UsersOf(file.text), args'[1][1]) = {}
                   <=> (out'[1] = SaysNotFound /\ code'[1] = 1) ) ]_vars

\* "User not found" on a store that holds records, none of them named u
C4_Witness ==
    /\ AuthDone
    /\ HasUsers(file.text)
    /\ UsersOf(file.text) # <<>>
    /\ Holders(UsersOf(file.text), args[1][1]) = {}
    /\ out[1] = SaysNotFound
    /\ code[1] = 1

(***************************************************************************)
(* C5                                                                      *)
(***************************************************************************)

\* C5: a Register that ran alone leaves on disk the users sequence it found
\* followed by its one record, and after n such runs the sequence is the
\* initial one followed by the n records in call order.
C5_Persistence ==
    /\ RegDone
       => ( /\ HasUsers(file.text)
            /\ UsersOf(file.text) = UsersOf(seen[1]) \o << RecOf(args[1]) >> )
    /\ (pc[1] \in {"idle", "done"} /\ HasUsers(file0.text))
       => ( /\ HasUsers(file.text)
            /\ UsersOf(file.text)
                 = UsersOf(file0.text) \o [k \in 1..Len(calls) |-> RecOf(calls[k])] )

\* two registrations have run on a store that held a record
C5_Witness ==
    /\ RegDone
    /\ HasUsers(file0.text)
    /\ UsersOf(file0.text) # <<>>
    /\ Len(calls) >= 2
    /\ Len(UsersOf(file.text)) = Len(UsersOf(file0.text)) + Len(calls)

(***************************************************************************)
(* C6                                                                      *)
(***************************************************************************)

\* C6: a run of Authenticate leaves the store file as it was, whatever its
\* outcome, and every step that changes the file is a step of Register.
C6_ReadOnly ==
    [][ /\ AuthStep => file' = file
        /\ file' # file => (op[1] = "register" /\ pc[1] \in {"loaded", "opened"}) ]_vars

\* Authenticate has ended in a load failure on a file without "users", which is
\* still what it was
C6_Witness ==
    /\ AuthDone
    /\ Keyless(file.text)
    /\ file.text = seen[1]
    /\ code[1] = 1
    /\ out[1] = <<>>

(***************************************************************************)
(* C7                                                                      *)
(***************************************************************************)

\* C7: started on a file that does not exist or holds no "users" key, Register
\* and Authenticate both load an empty store without failing and go on with
\* it: Register to a store of its one record, Authenticate to "User not found".
C7_LoaderNormalizes ==
    [][ (Starts /\ (~file.exists \/ Keyless(file.text)))
        => /\ op'[1] = "register"
              => (pc'[1] = "loaded" /\ Users(db'[1]) = << RecOf(args'[1]) >>)
           /\ op'[1] = "authenticate"
              => (out'[1] = SaysNotFound /\ code'[1] = 1) ]_vars

(***************************************************************************)
(* C8                                                                      *)
(***************************************************************************)

\* C8: on a store with no "users" key Authenticate exits with code 1 and does
\* what it does on {"users":[]}: the same exit code and "User not found".
C8_KeylessLikeEmpty ==
    [][ (AuthStep /\ Keyless(file.text))
        => /\ code'[1] = 1
           /\ code'[1] = AuthResult(OnDisk(EmptyUsersText), args'[1][1], args'[1][2]).code
           /\ out'[1] = AuthResult(OnDisk(EmptyUsersText), args'[1][1], args'[1][2]).out
           /\ out'[1] = SaysNotFound ]_vars

(***************************************************************************)
(* C9                                                                      *)
(***************************************************************************)

\* longest password the hash laws are checked on
MaxPwLen == 2

PwChars == { "x", "\"", "\\", "H", "_" }

RECURSIVE StringsUpTo(_)
StringsUpTo(n) ==
    IF n = 0 THEN { <<>> }
    ELSE StringsUpTo(n - 1)
         \cup { Append(s, c) : s \in StringsUpTo(n - 1), c \in PwChars }

PwStrings == StringsUpTo(MaxPwLen)

HashLaws ==
    \A p1 \in PwStrings :
        /\ hash_pass(p1) = SpecHash(p1)
        /\ StoredHash(p1) = hash_pass(p1)
        /\ \A p2 \in PwStrings : p1 # p2 => hash_pass(p1) # hash_pass(p2)

\* C9: hash_pass(p) is "HASH_" followed by p, two passwords never share a hash,
\* and the password_hash a finished Register left on disk for p is hash_pass(p).
C9_Hash ==
    /\ HashLaws
    /\ RegDone
       => ( /\ UsersOf(file.text) # <<>>
            /\ HashOf(UsersOf(file.text)[Len(UsersOf(file.text))]) = hash_pass(args[1][2]) )

\* a Register has stored the hash of a password that holds a quote and a
\* backslash
C9_Witness ==
    /\ RegDone
    /\ args[1][2] = << "\"", "\\" >>
    /\ UsersOf(file.text) # <<>>
    /\ HashOf(UsersOf(file.text)[Len(UsersOf(file.text))])
          = << "H", "A", "S", "H", "_", "\"", "\\" >>

(***************************************************************************)
(* C10                                                                     *)
(***************************************************************************)

\* both processes have finished a Register of the same file contents
Raced ==
    /\ \A i \in Procs : pc[i] = "done" /\ op[i] = "register" /\ code[i] = 0
    /\ seen[1] = seen[2]

\* C10: whenever no write is under way the file ends with the record of the
\* Register that wrote last; and when two Register processes that read the same
\* store have both finished, the file holds the records they read followed by
\* that one record, and nothing of the other process.
C10_LastWriterWins ==
    /\ (calls # <<>> /\ \A i \in Procs : pc[i] # "opened")
       => ( /\ HasUsers(file.text)
            /\ UsersOf(file.text) # <<>>
            /\ UsersOf(file.text)[Len(UsersOf(file.text))] = RecOf(calls[Len(calls)]) )
    /\ Raced
       => ( /\ calls[Len(calls)] \in { args[i] : i \in Procs }
            /\ UsersOf(file.text) = UsersOf(seen[1]) \o << RecOf(calls[Len(calls)]) >> )

\* two different registrations have both finished and one record is on disk
C10_Witness ==
    /\ Raced
    /\ args[1] # args[2]
    /\ UsersOf(seen[1]) # <<>>
    /\ Len(UsersOf(file.text)) = Len(UsersOf(seen[1])) + 1

====
